---- MODULE Spec2Model ----
(***************************************************************************)
(* Read-through / write-invalidate caching of the users resource.          *)
(*                                                                         *)
(*   users/views.py          UserViewSet (list, retrieve, perform_create,  *)
(*                           perform_update, perform_destroy)              *)
(*   users/cache_signals.py  post_save / post_delete receivers             *)
(*   users/cache_utils.py    cache_with_tags, invalidate_by_tag,           *)
(*                           get_cache_stats, clear_all_cache              *)
(*   users/management/commands/warm_cache.py  Command.handle               *)
(*                                                                         *)
(* Strings are sequences of one-character strings, so that key formatting  *)
(* (f"{prefix}_{identifier}") and the parsing of the pk of the detail      *)
(* route are computed rather than assumed.                                 *)
(***************************************************************************)
EXTENDS Integers, Sequences, FiniteSets, TLC

(* ------------------------------ bounds -------------------------------- *)
MaxId == 2
MaxTime == 3
MaxReqs == 3
MaxSeqReqs == 4
MaxRaceReqs == 2
MaxTagReqs == 4
MaxAdminReqs == 3
MaxWarmReqs == 3

(* settings.CACHE_TTL, the timeout of every set the handlers issue *)
CACHE_TTL == 2

(* how many keys get_cache_stats lists at most (keys[:100]), scaled down   *)
(* to what a small store can exceed                                        *)
KEYS_SAMPLE == 2

Workers == {1, 2}
Ids == 1..MaxId
(* the contents of a row: two, to tell a changed row from an unchanged one *)
Data == {1, 2}

(* ------------------------------ strings ------------------------------- *)
USER == <<"u", "s", "e", "r">>
USER_LIST == <<"u", "s", "e", "r", "_", "l", "i", "s", "t">>

Digits == <<"0", "1", "2", "3", "4", "5", "6", "7", "8", "9">>

DigitChar(d) == Digits[d + 1]

DigitVal(c) == CHOOSE d \in 0..9 : Digits[d + 1] = c

IsDigit(c) == \E d \in 0..9 : Digits[d + 1] = c

(* str(n) of a non-negative integer: its decimal digits *)
RECURSIVE IntStr(_)
IntStr(n) == IF n < 10 THEN <<DigitChar(n)>>
             ELSE IntStr(n \div 10) \o <<DigitChar(n % 10)>>

(* int(s) as the pk lookup applies it to the string of the URL: decimal      *)
(* digits, leading zeros accepted; -1 when s is not a number (the lookup    *)
(* then matches no record).                                                *)
RECURSIVE DigitsVal(_)
DigitsVal(s) == IF Len(s) = 0 THEN 0
                ELSE 10 * DigitsVal(SubSeq(s, 1, Len(s) - 1)) + DigitVal(s[Len(s)])

ParseInt(s) == IF Len(s) > 0 /\ \A i \in 1..Len(s) : IsDigit(s[i])
               THEN DigitsVal(s) ELSE -1

(* identifiers handed to get_cache_key: None, an int (instance.id) or the  *)
(* pk string of the URL (kwargs.get('pk'))                                 *)
None == [t |-> "none"]
IntId(n) == [t |-> "int", n |-> n]
StrId(s) == [t |-> "str", s |-> s]

(* mutant: an integer id formatted with a leading zero *)
Format_padded(identifier) ==
    IF identifier.t = "int" THEN <<"0">> \o IntStr(identifier.n) ELSE identifier.s

(* f"{identifier}" *)
Format(identifier) == IF identifier.t = "int" THEN IntStr(identifier.n) ELSE identifier.s

(* pk values the detail route is driven with: the canonical decimal of     *)
(* every id, an id written with a leading zero, and a word                 *)
CanonicalPks == {IntStr(i) : i \in Ids}
RoutePks == CanonicalPks \cup {<<"0">> \o IntStr(1), <<"l", "i", "s", "t">>}

(* --------------------------- cache key policy ------------------------- *)
get_cache_key(prefix, identifier) ==
    IF identifier # None THEN prefix \o <<"_">> \o Format(identifier) ELSE prefix

(* ------------------------------ payloads ------------------------------ *)
NoPayload == [kind |-> "none", rows |-> {}]

Row(d, i) == [id |-> i, data |-> d[i]]

(* UserSerializer(queryset, many=True).data *)
ListPayload(d) == [kind |-> "list", rows |-> {Row(d, i) : i \in {j \in Ids : d[j] # 0}}]

(* UserSerializer(instance).data *)
DetailPayload(d, i) == [kind |-> "user", rows |-> {Row(d, i)}]

(* get_object(): the record the pk of the URL resolves to, 0 when none *)
get_object(d, pk) ==
    LET n == ParseInt(pk) IN IF n \in Ids /\ d[n] # 0 THEN n ELSE 0

(* --------------------------- key-value store -------------------------- *)
(* An entry carries its value and three ghost fields: born (the number of   *)
(* writes the system of record had completed when the value was computed), *)
(* setAt and ttl (the time and timeout of the set that wrote it).          *)
Entry(val, born, t, ttl) == [val |-> val, born |-> born, setAt |-> t, ttl |-> ttl, exp |-> t + ttl]

Has(c, key) == key \in DOMAIN c

(* mutant: the set stores nothing *)
cache_set_dropped(c, key, val, born, t, ttl) == c

(* mutant: the set is issued without its timeout *)
cache_set_no_timeout(c, key, val, born, t, ttl) ==
    [k \in DOMAIN c \cup {key} |->
        IF k = key THEN [Entry(val, born, t, ttl) EXCEPT !.exp = t + ttl + MaxTime] ELSE c[k]]

(* mutant: the set of a key the store holds keeps the expiry it had *)
cache_set_keep_expiry(c, key, val, born, t, ttl) ==
    [k \in DOMAIN c \cup {key} |->
        IF k # key THEN c[k]
        ELSE IF Has(c, key) THEN [Entry(val, born, t, ttl) EXCEPT !.exp = c[key].exp]
        ELSE Entry(val, born, t, ttl)]

(* mutant: the set replaces the whole store by its entry *)
cache_set_exclusive(c, key, val, born, t, ttl) == [k \in {key} |-> Entry(val, born, t, ttl)]

cache_set(c, key, val, born, t, ttl) ==
    [k \in DOMAIN c \cup {key} |-> IF k = key THEN Entry(val, born, t, ttl) ELSE c[k]]

(* mutant: a delete empties the store *)
cache_delete_flush(c, key) == [k \in {} |-> c[k]]

cache_delete(c, key) == [k \in DOMAIN c \ {key} |-> c[k]]

(* the store drops every entry whose expiry time has come *)
Expire(c, t) == [k \in {x \in DOMAIN c : c[x].exp > t} |-> c[k]]

EmptyCache == [k \in {} |-> NoPayload]


(* -------------------- cache_utils.py: the tagging index --------------- *)
(* tags, the keys that are cached with tags, and the timeouts of the calls *)
Tags == {<<"t", "1">>, <<"t", "2">>}
TagKeys == {<<"k", "1">>, <<"k", "2">>}
Timeouts == {1, 2}

(* the non-empty lists of tags of a call *)
TagLists == {<<t>> : t \in Tags} \cup {<<t, u>> : t \in Tags, u \in Tags}

(* lines 55 and 73: f'tag_{tag}' *)
tag_key(tag) == <<"t", "a", "g", "_">> \o tag

(* the data of a tagged entry (opaque), and the value of a tag index: the  *)
(* set of the keys cached under the tag                                    *)
TagData == [kind |-> "data", rows |-> {}]
TagSet(keys) == [kind |-> "tags", rows |-> keys]

(* mutant: the member set is never read back *)
cache_get_set_empty(c, key) == {}

(* lines 56 and 74: cache.get(tag_key, set()) *)
cache_get_set(c, key) == IF Has(c, key) THEN c[key].val.rows ELSE {}

NoTagged == [t \in Tags |-> [keys |-> {}, orphans |-> {}]]

(* the ghost after the store went from c to c2 by expiry: keys that        *)
(* expired leave it, and the live keys of a tag whose index expired are    *)
(* its orphans                                                             *)
AfterExpiry(g, c, c2) ==
    [t \in Tags |->
        LET live == {k \in g[t].keys : Has(c2, k)}
            gone == Has(c, tag_key(t)) /\ ~Has(c2, tag_key(t))
        IN  [keys |-> live, orphans |-> IF gone THEN live ELSE g[t].orphans \cap live]]

(* ------------------------------- state -------------------------------- *)
VARIABLES
    db,         \* system of record: id -> data of the row, 0 when there is no row
    prevDb,     \* ghost: db as it was before the latest write
    dbGen,      \* ghost: number of writes the system of record has completed
    nextId,     \* the autoincrement of the primary key
    cache,      \* the key-value store: key -> entry
    now,        \* the clock of the store
    up,         \* the store is reachable
    ignoreExc,  \* the cache client swallows connection errors instead of raising
    pc,         \* per worker: where its request is
    req,        \* per worker: the request it handles (kept after it returns)
    loc,        \* per worker: the locals of the handler
    res,        \* per worker: the response
    calls,      \* ghost, per worker: the cache calls its request issued so far
    log,        \* per worker: what its request sent to the logger
    nreq,       \* requests still allowed to start
    scen,       \* ghost: progress through retrieve, retrieve, update, retrieve
    tagged      \* ghost, per tag: the live keys added under it and not invalidated
                \* through it since, and whether its index expired meanwhile

vars == <<db, prevDb, dbGen, nextId, cache, now, up, ignoreExc, pc, req, loc, res,
          calls, log, nreq, scen, tagged>>

Req(op, pk, data, id) == [op |-> op, pk |-> pk, data |-> data, id |-> id]
NoReq == Req("none", <<>>, 0, 0)

Res(status, hit, val, born, dbread) ==
    [status |-> status, hit |-> hit, val |-> val, born |-> born, dbread |-> dbread]
NoRes == Res("none", FALSE, NoPayload, 0, FALSE)

Loc(id, val, born, k, cont, wrote, created) ==
    [id |-> id, val |-> val, born |-> born, k |-> k, cont |-> cont, wrote |-> wrote,
     created |-> created, raced |-> FALSE]
NoLoc == Loc(0, NoPayload, 0, 0, "idle", FALSE, FALSE)

(* one cache call of a request: ok is FALSE when the store did not answer; *)
(* wrote tells whether the request's write to the system of record was     *)
(* complete when the call was issued                                       *)
Call(op, key, ok, wrote) == [op |-> op, key |-> key, ok |-> ok, wrote |-> wrote]

Invalidated(key) == [msg |-> "Cache invalidated", key |-> key, id |-> 0]
Changed(id, action) == [msg |-> action, key |-> <<>>, id |-> id]

NoScen == [step |-> 0, id |-> 0, P |-> NoPayload]
OffScen == [step |-> -1, id |-> 0, P |-> NoPayload]

(* the scenario of four requests on one record id, from the empty cache:   *)
(* which step the request q that just returned r completes                 *)
ScenStep(s, q, r) ==
    IF s.step = 0 /\ q.op = "retrieve" /\ r.status = "2xx"
                  /\ \E i \in Ids : q.pk = IntStr(i)
    THEN [step |-> 1, id |-> ParseInt(q.pk), P |-> r.val]
    ELSE IF s.step \in {1, 3} /\ q.op = "retrieve" /\ q.pk = IntStr(s.id)
    THEN [s EXCEPT !.step = s.step + 1]
    ELSE IF s.step = 2 /\ q.op = "update" /\ q.pk = IntStr(s.id) /\ r.status = "2xx"
    THEN [s EXCEPT !.step = 3]
    ELSE OffScen

(* the state at start-up: one row, an empty cache, a reachable store; n    *)
(* requests may be served and the client's handling of connection errors   *)
(* is one of modes                                                         *)
Start(n, modes) ==
    /\ db = [i \in Ids |-> IF i = 1 THEN 1 ELSE 0]
    /\ prevDb = [i \in Ids |-> IF i = 1 THEN 1 ELSE 0]
    /\ dbGen = 0
    /\ nextId = 2
    /\ cache = EmptyCache
    /\ now = 0
    /\ up = TRUE
    /\ ignoreExc \in modes
    /\ pc = [w \in Workers |-> "idle"]
    /\ req = [w \in Workers |-> NoReq]
    /\ loc = [w \in Workers |-> NoLoc]
    /\ res = [w \in Workers |-> NoRes]
    /\ calls = [w \in Workers |-> <<>>]
    /\ log = [w \in Workers |-> <<>>]
    /\ nreq = n
    /\ scen = NoScen
    /\ tagged = NoTagged

Init == Start(MaxReqs, {FALSE})

(* a worker takes a new request: the lowest idle one, which loses no       *)
(* interleaving, the workers being alike                                   *)
CanStart(w) == pc[w] = "idle" /\ nreq > 0 /\ \A v \in Workers : v < w => pc[v] # "idle"

(* the exception of a cache call propagates: the request ends in a 500 *)
Raises == ~up /\ ~ignoreExc


(* cache.get(key): the entry, or NoEntry (None) *)
NoEntry == [val |-> NoPayload, born |-> 0, setAt |-> 0, ttl |-> 0, exp |-> 0]

cache_get(c, key) == IF Has(c, key) THEN c[key] ELSE NoEntry

(* the request of w returns r *)
Finish(w, q, r) ==
    /\ pc' = [pc EXCEPT ![w] = "idle"]
    /\ res' = [res EXCEPT ![w] = r]
    /\ scen' = ScenStep(scen, q, r)

(* the request of w goes on at target *)
Goto(w, target) ==
    /\ pc' = [pc EXCEPT ![w] = target]
    /\ res' = [res EXCEPT ![w] = NoRes]
    /\ UNCHANGED scen

Error500(dbread) == Res("500", FALSE, NoPayload, 0, dbread)

(* a new request of w begins: its locals, calls and log are fresh *)
Begin(w, q, l, firstCalls) ==
    /\ CanStart(w)
    /\ req' = [req EXCEPT ![w] = q]
    /\ loc' = [loc EXCEPT ![w] = l]
    /\ calls' = [calls EXCEPT ![w] = firstCalls]
    /\ log' = [log EXCEPT ![w] = <<>>]
    /\ nreq' = nreq - 1

AddCall(w, c) == calls' = [calls EXCEPT ![w] = Append(calls[w], c)]

(* workers that are inside the change-notification hook *)
HookPcs == {"on_save", "on_delete"}

(* mutant: the hook forgets the list key *)
cache_keys_to_delete_no_list(instance_id) == <<get_cache_key(USER, IntId(instance_id))>>

(* mutant: the hook forgets the key of the record *)
cache_keys_to_delete_list_only(instance_id) == <<get_cache_key(USER_LIST, None)>>

(* cache_signals.py lines 33-36 and 51-54: the keys the hook deletes, in   *)
(* the order it deletes them                                               *)
cache_keys_to_delete(instance_id) ==
    <<get_cache_key(USER_LIST, None), get_cache_key(USER, IntId(instance_id))>>

(* ghost: a set of key by worker w lands while another worker is inside    *)
(* the hook and has already deleted key                                    *)
MarkRaced(l, w, key) ==
    [v \in Workers |->
        IF v # w /\ pc[v] \in HookPcs
               /\ \E i \in 1..(l[v].k - 1) : cache_keys_to_delete(l[v].id)[i] = key
        THEN [l[v] EXCEPT !.raced = TRUE] ELSE l[v]]

(* ----------------------- views.py: UserViewSet.list ------------------- *)
(* lines 27-30: the lookup; a hit returns the cached data *)
list_get(w) ==
    LET cache_key == get_cache_key(USER_LIST, None)
        q == Req("list", <<>>, 0, 0)
        cached_data == cache_get(cache, cache_key)
    IN  /\ Begin(w, q, NoLoc, <<Call("get", cache_key, up, FALSE)>>)
        /\ IF Raises THEN Finish(w, q, Error500(FALSE))
           ELSE IF up /\ cached_data.val # NoPayload
                THEN Finish(w, q, Res("2xx", TRUE, cached_data.val, cached_data.born, FALSE))
                ELSE Goto(w, "list_super")
        /\ UNCHANGED <<db, prevDb, dbGen, nextId, cache, now, up, ignoreExc, tagged>>

(* line 32: super().list() reads the system of record and serializes it *)
list_super(w) ==
    /\ pc[w] = "list_super"
    /\ loc' = [loc EXCEPT ![w].val = ListPayload(db), ![w].born = dbGen]
    /\ Goto(w, "list_set")
    /\ UNCHANGED <<db, prevDb, dbGen, nextId, cache, now, up, ignoreExc, tagged, req, calls, log, nreq>>

(* lines 33-34: cache.set(cache_key, response.data, timeout=CACHE_TTL); return *)
list_set(w) ==
    LET cache_key == get_cache_key(USER_LIST, None) IN
    /\ pc[w] = "list_set"
    /\ AddCall(w, Call("set", cache_key, up, FALSE))
    /\ cache' = IF up THEN cache_set(cache, cache_key, loc[w].val, loc[w].born, now, CACHE_TTL)
                ELSE cache
    /\ IF Raises THEN Finish(w, req[w], Error500(TRUE))
       ELSE Finish(w, req[w], Res("2xx", FALSE, loc[w].val, loc[w].born, TRUE))
    /\ loc' = IF up THEN MarkRaced(loc, w, cache_key) ELSE loc
    /\ UNCHANGED <<db, prevDb, dbGen, nextId, now, up, ignoreExc, tagged, req, log, nreq>>

(* --------------------- views.py: UserViewSet.retrieve ----------------- *)
(* lines 38-42 *)
retrieve_get(w, pk) ==
    LET user_id == StrId(pk)
        cache_key == get_cache_key(USER, user_id)
        q == Req("retrieve", pk, 0, 0)
        cached_data == cache_get(cache, cache_key)
    IN  /\ Begin(w, q, NoLoc, <<Call("get", cache_key, up, FALSE)>>)
        /\ IF Raises THEN Finish(w, q, Error500(FALSE))
           ELSE IF up /\ cached_data.val # NoPayload
                THEN Finish(w, q, Res("2xx", TRUE, cached_data.val, cached_data.born, FALSE))
                ELSE Goto(w, "retrieve_super")
        /\ UNCHANGED <<db, prevDb, dbGen, nextId, cache, now, up, ignoreExc, tagged>>

(* line 44: super().retrieve(): get_object() raises 404 when the pk matches *)
(* no record, else the record is serialized                                *)
retrieve_super(w) ==
    LET instance == get_object(db, req[w].pk) IN
    /\ pc[w] = "retrieve_super"
    /\ IF instance = 0
       THEN /\ Finish(w, req[w], Res("404", FALSE, NoPayload, 0, TRUE))
            /\ UNCHANGED loc
       ELSE /\ loc' = [loc EXCEPT ![w].id = instance, ![w].val = DetailPayload(db, instance),
                                  ![w].born = dbGen]
            /\ Goto(w, "retrieve_set")
    /\ UNCHANGED <<db, prevDb, dbGen, nextId, cache, now, up, ignoreExc, tagged, req, calls, log, nreq>>

(* lines 45-46 *)
retrieve_set(w) ==
    LET cache_key == get_cache_key(USER, StrId(req[w].pk)) IN
    /\ pc[w] = "retrieve_set"
    /\ AddCall(w, Call("set", cache_key, up, FALSE))
    /\ cache' = IF up THEN cache_set(cache, cache_key, loc[w].val, loc[w].born, now, CACHE_TTL)
                ELSE cache
    /\ IF Raises THEN Finish(w, req[w], Error500(TRUE))
       ELSE Finish(w, req[w], Res("2xx", FALSE, loc[w].val, loc[w].born, TRUE))
    /\ loc' = IF up THEN MarkRaced(loc, w, cache_key) ELSE loc
    /\ UNCHANGED <<db, prevDb, dbGen, nextId, now, up, ignoreExc, tagged, req, log, nreq>>


(* ------------------------- the system of record ----------------------- *)
(* one committed write: the row of id i becomes d (0 removes the row) *)
DbWrite(i, d) ==
    /\ db' = [db EXCEPT ![i] = d]
    /\ prevDb' = db
    /\ dbGen' = dbGen + 1

Success == Res("2xx", FALSE, NoPayload, 0, FALSE)

(* ------------- cache_signals.py: the change-notification hook --------- *)
(* One iteration of the loop of lines 38-40 (56-58): cache.delete(key),    *)
(* then logger.info; after the last key the closing logger.info of line 43 *)
(* (60) and the return to the caller of save() (delete()).                 *)
HookStep(w, action) ==
    LET keys == cache_keys_to_delete(loc[w].id)
        k == loc[w].k
        cache_key == keys[k]
    IN  /\ AddCall(w, Call("delete", cache_key, up, loc[w].wrote))
        /\ cache' = IF up THEN cache_delete(cache, cache_key) ELSE cache
        /\ IF Raises
           THEN /\ Finish(w, req[w], Error500(FALSE))
                /\ UNCHANGED <<loc, log>>
           ELSE IF k < Len(keys)
           THEN /\ log' = [log EXCEPT ![w] = Append(log[w], Invalidated(cache_key))]
                /\ loc' = [loc EXCEPT ![w].k = k + 1]
                /\ Goto(w, pc[w])
           ELSE /\ log' = [log EXCEPT ![w] = log[w] \o
                              <<Invalidated(cache_key), Changed(loc[w].id, action)>>]
                /\ loc' = [loc EXCEPT ![w].k = 1]
                /\ IF loc[w].cont = "idle" THEN Finish(w, req[w], Success)
                   ELSE Goto(w, loc[w].cont)
        /\ UNCHANGED <<db, prevDb, dbGen, nextId, now, up, ignoreExc, tagged, req, nreq>>

(* lines 25-43: receiver of post_save *)
invalidate_user_cache_on_save(w) ==
    /\ pc[w] = "on_save"
    /\ HookStep(w, IF loc[w].created THEN "created" ELSE "updated")

(* lines 46-60: receiver of post_delete *)
invalidate_user_cache_on_delete(w) ==
    /\ pc[w] = "on_delete"
    /\ HookStep(w, "deleted")

(* ------------------ views.py: the mutating handlers ------------------- *)
(* One cache.delete of a handler, the k-th of keys; after the last one the *)
(* handler goes on at target ("idle": it returns).                         *)
HandlerDelete(w, keys, target) ==
    LET k == loc[w].k
        cache_key == keys[k]
    IN  /\ AddCall(w, Call("delete", cache_key, up, loc[w].wrote))
        /\ cache' = IF up THEN cache_delete(cache, cache_key) ELSE cache
        /\ IF Raises
           THEN /\ Finish(w, req[w], Error500(FALSE))
                /\ UNCHANGED loc
           ELSE IF k < Len(keys)
           THEN /\ loc' = [loc EXCEPT ![w].k = k + 1]
                /\ Goto(w, pc[w])
           ELSE /\ loc' = [loc EXCEPT ![w].k = 1]
                /\ IF target = "idle" THEN Finish(w, req[w], Success)
                   ELSE Goto(w, target)
        /\ UNCHANGED <<db, prevDb, dbGen, nextId, now, up, ignoreExc, tagged, req, log, nreq>>

(* line 49: POST; super().perform_create() is serializer.save(): the       *)
(* INSERT, after which post_save runs the hook inside save()               *)
create(w, data) ==
    /\ nextId <= MaxId
    /\ Begin(w, Req("create", <<>>, data, 0),
             Loc(nextId, NoPayload, 0, 1, "perform_create", TRUE, TRUE), <<>>)
    /\ DbWrite(nextId, data)
    /\ nextId' = nextId + 1
    /\ Goto(w, "on_save")
    /\ UNCHANGED <<cache, now, up, ignoreExc, tagged>>

(* line 50 *)
perform_create(w) ==
    /\ pc[w] = "perform_create"
    /\ HandlerDelete(w, <<get_cache_key(USER_LIST, None)>>, "idle")

(* line 54: PUT; get_object() (404 when no record), then                   *)
(* super().perform_update() is serializer.save(): the UPDATE and the hook  *)
update(w, pk, data) ==
    LET instance == get_object(db, pk)
        q == Req("update", pk, data, 0)
    IN  IF instance = 0
        THEN /\ Begin(w, q, NoLoc, <<>>)
             /\ Finish(w, q, Res("404", FALSE, NoPayload, 0, TRUE))
             /\ UNCHANGED <<db, prevDb, dbGen, nextId, cache, now, up, ignoreExc, tagged>>
        ELSE /\ Begin(w, q, Loc(instance, NoPayload, 0, 1, "perform_update", TRUE, FALSE), <<>>)
             /\ DbWrite(instance, data)
             /\ Goto(w, "on_save")
             /\ UNCHANGED <<nextId, cache, now, up, ignoreExc, tagged>>

(* lines 55-58: user_id = serializer.instance.id and the two deletes *)
perform_update(w) ==
    LET user_id == loc[w].id IN
    /\ pc[w] = "perform_update"
    /\ HandlerDelete(w, <<get_cache_key(USER_LIST, None), get_cache_key(USER, IntId(user_id))>>,
                     "idle")

(* DELETE: get_object() (404 when no record), then perform_destroy *)
destroy(w, pk) ==
    LET instance == get_object(db, pk)
        q == Req("destroy", pk, 0, 0)
    IN  /\ IF instance = 0
           THEN /\ Begin(w, q, NoLoc, <<>>)
                /\ Finish(w, q, Res("404", FALSE, NoPayload, 0, TRUE))
           ELSE /\ Begin(w, q, Loc(instance, NoPayload, 0, 1, "idle", FALSE, FALSE), <<>>)
                /\ Goto(w, "perform_destroy")
        /\ UNCHANGED <<db, prevDb, dbGen, nextId, cache, now, up, ignoreExc, tagged>>

(* lines 61-63: user_id = instance.id and the two deletes, before the row  *)
(* is deleted                                                              *)
perform_destroy(w) ==
    LET user_id == loc[w].id IN
    /\ pc[w] = "perform_destroy"
    /\ HandlerDelete(w, <<get_cache_key(USER_LIST, None), get_cache_key(USER, IntId(user_id))>>,
                     "perform_destroy_super")

(* line 64: super().perform_destroy() is instance.delete(): the DELETE,    *)
(* after which post_delete runs the hook with the instance and its id      *)
perform_destroy_super(w) ==
    /\ pc[w] = "perform_destroy_super"
    /\ DbWrite(loc[w].id, 0)
    /\ loc' = [loc EXCEPT ![w].wrote = TRUE, ![w].k = 1]
    /\ Goto(w, "on_delete")
    /\ UNCHANGED <<nextId, cache, now, up, ignoreExc, tagged, req, calls, log, nreq>>

(* a save() outside the API (admin, shell): of a new instance (id = 0) or  *)
(* of the instance of an existing row; post_save runs the hook             *)
model_save(w, id, data) ==
    LET instance == IF id = 0 THEN nextId ELSE id IN
    /\ IF id = 0 THEN nextId <= MaxId ELSE db[id] # 0
    /\ Begin(w, Req("save", <<>>, data, id),
             Loc(instance, NoPayload, 0, 1, "idle", TRUE, id = 0), <<>>)
    /\ DbWrite(instance, data)
    /\ nextId' = IF id = 0 THEN nextId + 1 ELSE nextId
    /\ Goto(w, "on_save")
    /\ UNCHANGED <<cache, now, up, ignoreExc, tagged>>

(* a delete() outside the API of the instance of an existing row *)
model_delete(w, id) ==
    /\ db[id] # 0
    /\ Begin(w, Req("delete", <<>>, 0, id), Loc(id, NoPayload, 0, 1, "idle", TRUE, FALSE), <<>>)
    /\ DbWrite(id, 0)
    /\ Goto(w, "on_delete")
    /\ UNCHANGED <<nextId, cache, now, up, ignoreExc, tagged>>

(* ------------------------------ the store ----------------------------- *)
(* time passes; the store drops what has expired *)
Tick ==
    /\ now < MaxTime
    /\ now' = now + 1
    /\ cache' = Expire(cache, now + 1)
    /\ scen' = IF Expire(cache, now + 1) = cache THEN scen ELSE OffScen
    /\ tagged' = AfterExpiry(tagged, cache, Expire(cache, now + 1))
    /\ UNCHANGED <<db, prevDb, dbGen, nextId, up, ignoreExc, pc, req, loc, res, calls, log, nreq>>

(* the store becomes unreachable, and reachable again *)
StoreDown ==
    /\ up
    /\ up' = FALSE
    /\ UNCHANGED <<db, prevDb, dbGen, nextId, cache, now, ignoreExc, tagged, pc, req, loc, res, calls,
                   log, nreq, scen>>

StoreUp ==
    /\ ~up
    /\ up' = TRUE
    /\ UNCHANGED <<db, prevDb, dbGen, nextId, cache, now, ignoreExc, tagged, pc, req, loc, res, calls,
                   log, nreq, scen>>

(* --------------- cache_utils.py: cache_with_tags (42-60) --------------- *)
TagReq(op, key, tags, timeout) == [op |-> op, key |-> key, tags |-> tags, timeout |-> timeout]

(* locals: i, the index of the tag at hand; tagged_keys, the member set    *)
(* read; todo, the members still to delete; count; and a ghost, present:   *)
(* how many members the store held when the member set was read            *)
TagLoc(i, tagged_keys, todo, count, present) ==
    [i |-> i, tagged_keys |-> tagged_keys, todo |-> todo, count |-> count, present |-> present]

(* what a utility returns: status "raised" when an exception leaves it *)
Ret(status, count, val) == [status |-> status, count |-> count, val |-> val]

(* line 52: cache.set(key, data, timeout) *)
cache_with_tags(w, key, tags, timeout) ==
    LET q == TagReq("cache_with_tags", key, tags, timeout) IN
    /\ Begin(w, q, TagLoc(1, {}, {}, 0, 0), <<Call("set", key, up, FALSE)>>)
    /\ cache' = IF up THEN cache_set(cache, key, TagData, dbGen, now, timeout) ELSE cache
    /\ IF Raises THEN Finish(w, q, Ret("raised", 0, {})) ELSE Goto(w, "tag_get")
    /\ UNCHANGED <<db, prevDb, dbGen, nextId, now, up, ignoreExc, tagged>>

(* lines 54-56: tag_key = f'tag_{tag}'; tagged_keys = cache.get(tag_key, set()) *)
cache_with_tags_get(w) ==
    LET tag == req[w].tags[loc[w].i] IN
    /\ pc[w] = "tag_get"
    /\ AddCall(w, Call("get", tag_key(tag), up, FALSE))
    /\ loc' = [loc EXCEPT ![w].tagged_keys = IF up THEN cache_get_set(cache, tag_key(tag)) ELSE {}]
    /\ IF Raises THEN Finish(w, req[w], Ret("raised", 0, {})) ELSE Goto(w, "tag_set")
    /\ UNCHANGED <<db, prevDb, dbGen, nextId, cache, now, up, ignoreExc, tagged, req, log, nreq>>

(* lines 57-58: tagged_keys.add(key); cache.set(tag_key, tagged_keys,      *)
(* timeout); then the next tag, or the return                              *)
cache_with_tags_set(w) ==
    LET i == loc[w].i
        tag == req[w].tags[i]
        tagged_keys == loc[w].tagged_keys \cup {req[w].key}
    IN  /\ pc[w] = "tag_set"
        /\ AddCall(w, Call("set", tag_key(tag), up, FALSE))
        /\ cache' = IF up THEN cache_set(cache, tag_key(tag), TagSet(tagged_keys), dbGen, now,
                                         req[w].timeout)
                    ELSE cache
        /\ tagged' = IF up THEN [tagged EXCEPT ![tag].keys = @ \cup {req[w].key},
                                               ![tag].orphans = @ \ tagged_keys]
                     ELSE tagged
        /\ IF Raises THEN Finish(w, req[w], Ret("raised", 0, {})) /\ UNCHANGED loc
           ELSE IF i < Len(req[w].tags)
           THEN loc' = [loc EXCEPT ![w].i = i + 1] /\ Goto(w, "tag_get")
           ELSE Finish(w, req[w], Ret("ok", 0, {})) /\ UNCHANGED loc
        /\ UNCHANGED <<db, prevDb, dbGen, nextId, now, up, ignoreExc, req, log, nreq>>

(* --------------- cache_utils.py: invalidate_by_tag (63-85) ------------- *)
(* lines 73-75: tagged_keys = cache.get(tag_key, set()); count = 0 *)
invalidate_by_tag(w, tag) ==
    LET q == TagReq("invalidate_by_tag", <<>>, <<tag>>, 0)
        tagged_keys == IF up THEN cache_get_set(cache, tag_key(tag)) ELSE {}
        present == Cardinality({k \in tagged_keys : Has(cache, k)})
    IN  /\ Begin(w, q, TagLoc(1, tagged_keys, tagged_keys, 0, present),
                 <<Call("get", tag_key(tag), up, FALSE)>>)
        /\ IF Raises THEN Finish(w, q, Ret("raised", 0, {})) ELSE Goto(w, "tag_delete")
        /\ UNCHANGED <<db, prevDb, dbGen, nextId, cache, now, up, ignoreExc, tagged>>

(* lines 77-79: one iteration of the loop, in the order the set yields its *)
(* members: cache.delete(key); count += 1                                  *)
invalidate_by_tag_key(w) ==
    /\ pc[w] = "tag_delete"
    /\ \E key \in loc[w].todo :
          /\ AddCall(w, Call("delete", key, up, FALSE))
          /\ cache' = IF up THEN cache_delete(cache, key) ELSE cache
          /\ IF Raises THEN Finish(w, req[w], Ret("raised", 0, {})) /\ UNCHANGED loc
             ELSE /\ loc' = [loc EXCEPT ![w].todo = @ \ {key}, ![w].count = @ + 1]
                  /\ Goto(w, "tag_delete")
    /\ UNCHANGED <<db, prevDb, dbGen, nextId, now, up, ignoreExc, tagged, req, log, nreq>>

(* lines 82-85: after the loop, cache.delete(tag_key); return count *)
invalidate_by_tag_index(w) ==
    LET tag == req[w].tags[1] IN
    /\ pc[w] = "tag_delete"
    /\ loc[w].todo = {}
    /\ AddCall(w, Call("delete", tag_key(tag), up, FALSE))
    /\ cache' = IF up THEN cache_delete(cache, tag_key(tag)) ELSE cache
    /\ tagged' = IF up THEN [tagged EXCEPT ![tag].keys = @ \ loc[w].tagged_keys,
                                           ![tag].orphans = @ \ loc[w].tagged_keys]
                 ELSE tagged
    /\ IF Raises THEN Finish(w, req[w], Ret("raised", 0, {}))
       ELSE Finish(w, req[w], Ret("ok", loc[w].count, {}))
    /\ UNCHANGED <<db, prevDb, dbGen, nextId, now, up, ignoreExc, req, loc, log, nreq>>

(* ------------- cache_utils.py: clear_all_cache (141-163) --------------- *)
AdminReq(op) == [op |-> op]

(* locals of clear_all_cache: keys and count *)
ClearLoc(keys, count) == [keys |-> keys, count |-> count]

(* logger.error in the except clause of a utility *)
Failed(msg) == [msg |-> msg, key |-> <<>>, id |-> 0]

Min(a, b) == IF a < b THEN a ELSE b

(* views.py 82-89: POST cache/clear/ enters clear_cache_view *)
clear_cache_view(w) ==
    /\ Begin(w, AdminReq("clear_all_cache"), ClearLoc({}, 0), <<>>)
    /\ Goto(w, "clear_keys")
    /\ UNCHANGED <<db, prevDb, dbGen, nextId, cache, now, up, ignoreExc, tagged>>

(* mutant: the count is taken after the delete *)
clear_count_after(keys) == 0

(* line 153: count = len(keys) *)
clear_count(keys) == Cardinality(keys)

(* lines 149-153 and 158-163: the connection, keys = redis_client.keys('*') *)
(* and count = len(keys); with no key the function logs and returns 0, and *)
(* so it does, from the except clause, when the store does not answer      *)
clear_all_cache(w) ==
    LET keys == DOMAIN cache IN
    /\ pc[w] = "clear_keys"
    /\ AddCall(w, Call("keys", <<"*">>, up, FALSE))
    /\ IF ~up
       THEN /\ log' = [log EXCEPT ![w] = Append(log[w], Failed("Error clearing cache"))]
            /\ Finish(w, req[w], Ret("success", 0, {}))
            /\ UNCHANGED loc
       ELSE IF keys = {}
       THEN /\ Finish(w, req[w], Ret("success", clear_count(keys), {}))
            /\ UNCHANGED <<loc, log>>
       ELSE /\ loc' = [loc EXCEPT ![w] = ClearLoc(keys, clear_count(keys))]
            /\ Goto(w, "clear_delete")
            /\ UNCHANGED log
    /\ UNCHANGED <<db, prevDb, dbGen, nextId, cache, now, up, ignoreExc, tagged, req, nreq>>

(* lines 155-159: redis_client.delete of all the keys; return count *)
clear_all_cache_delete(w) ==
    /\ pc[w] = "clear_delete"
    /\ AddCall(w, Call("delete", <<"*">>, up, FALSE))
    /\ IF ~up
       THEN /\ log' = [log EXCEPT ![w] = Append(log[w], Failed("Error clearing cache"))]
            /\ Finish(w, req[w], Ret("success", 0, {}))
            /\ UNCHANGED cache
       ELSE /\ cache' = [k \in DOMAIN cache \ loc[w].keys |-> cache[k]]
            /\ Finish(w, req[w], Ret("success", loc[w].count, {}))
            /\ UNCHANGED log
    /\ UNCHANGED <<db, prevDb, dbGen, nextId, now, up, ignoreExc, tagged, req, loc, nreq>>

(* -------------- cache_utils.py: get_cache_stats (88-129) --------------- *)
(* the fields of the payload the claims are about *)
Stats(error, total_keys, keys) == [error |-> error, total_keys |-> total_keys, keys |-> keys]

(* views.py 67-78: GET cache/stats/ enters cache_stats_view *)
cache_stats_view(w) ==
    /\ Begin(w, AdminReq("get_cache_stats"), NoLoc, <<>>)
    /\ Goto(w, "stats")
    /\ UNCHANGED <<db, prevDb, dbGen, nextId, cache, now, up, ignoreExc, tagged>>

(* mutant: the key list is not cut *)
sample_size_all(total) == total

(* line 105: keys[:100] *)
sample_size(total) == Min(total, KEYS_SAMPLE)

(* lines 93-129: info() and keys('*'), then the payload: total_keys, the   *)
(* first keys in the order the store lists them; from the except clause    *)
(* the error payload                                                       *)
get_cache_stats(w) ==
    LET keys == DOMAIN cache
        total_keys == Cardinality(keys)
    IN  /\ pc[w] = "stats"
        /\ AddCall(w, Call("keys", <<"*">>, up, FALSE))
        /\ IF ~up
           THEN /\ log' = [log EXCEPT ![w] = Append(log[w], Failed("Error getting cache stats"))]
                /\ Finish(w, req[w], Ret("ok", 0, Stats(TRUE, 0, {})))
           ELSE /\ \E sample \in SUBSET keys :
                      /\ Cardinality(sample) = sample_size(total_keys)
                      /\ Finish(w, req[w], Ret("ok", 0, Stats(FALSE, total_keys, sample)))
                /\ UNCHANGED log
        /\ UNCHANGED <<db, prevDb, dbGen, nextId, cache, now, up, ignoreExc, tagged, req, loc, nreq>>

(* -------- management/commands/warm_cache.py: Command.handle (35-76) ---- *)
WarmReq(clear, timeout) == [op |-> "warm_cache", clear |-> clear, timeout |-> timeout]

(* locals: users, the rows the queryset yields; todo, the ids the loop has *)
(* still to cache; cached_count; born, the number of writes the system of  *)
(* record had completed when users was read; keys and count, the locals of *)
(* clear_all_cache                                                         *)
WarmLoc(users, todo, cached_count, born, keys, count) ==
    [users |-> users, todo |-> todo, cached_count |-> cached_count, born |-> born,
     keys |-> keys, count |-> count]

(* line 54: the literal 'user_list' *)
WARM_LIST_KEY == <<"u", "s", "e", "r", "_", "l", "i", "s", "t">>

(* line 61: f'user_{user.id}' *)
warm_cache_key(id) == <<"u", "s", "e", "r", "_">> \o IntStr(id)

(* lines 36-38: timeout = options['timeout']; if options['clear'] *)
warm_cache(w, clear, timeout) ==
    /\ Begin(w, WarmReq(clear, timeout), WarmLoc(db, {}, 0, dbGen, {}, 0), <<>>)
    /\ Goto(w, IF clear THEN "warm_clear" ELSE "warm_list")
    /\ UNCHANGED <<db, prevDb, dbGen, nextId, cache, now, up, ignoreExc, tagged>>

(* lines 40-41: clear_all_cache(), up to count = len(keys); its except     *)
(* clause returns 0 and the command goes on                                *)
warm_cache_clear(w) ==
    LET keys == DOMAIN cache IN
    /\ pc[w] = "warm_clear"
    /\ AddCall(w, Call("keys", <<"*">>, up, FALSE))
    /\ IF ~up
       THEN /\ log' = [log EXCEPT ![w] = Append(log[w], Failed("Error clearing cache"))]
            /\ Goto(w, "warm_list")
            /\ UNCHANGED loc
       ELSE IF keys = {}
       THEN /\ Goto(w, "warm_list")
            /\ UNCHANGED <<loc, log>>
       ELSE /\ loc' = [loc EXCEPT ![w].keys = keys, ![w].count = clear_count(keys)]
            /\ Goto(w, "warm_clear_delete")
            /\ UNCHANGED log
    /\ UNCHANGED <<db, prevDb, dbGen, nextId, cache, now, up, ignoreExc, tagged, req, nreq>>

(* lines 40-41: clear_all_cache(), its delete of all the keys *)
warm_cache_clear_delete(w) ==
    /\ pc[w] = "warm_clear_delete"
    /\ AddCall(w, Call("delete", <<"*">>, up, FALSE))
    /\ IF ~up
       THEN /\ log' = [log EXCEPT ![w] = Append(log[w], Failed("Error clearing cache"))]
            /\ UNCHANGED cache
       ELSE /\ cache' = [k \in DOMAIN cache \ loc[w].keys |-> cache[k]]
            /\ UNCHANGED log
    /\ Goto(w, "warm_list")
    /\ UNCHANGED <<db, prevDb, dbGen, nextId, now, up, ignoreExc, tagged, req, loc, nreq>>

(* lines 47-54: users = User.objects.all(); the serializer reads the rows; *)
(* cache.set('user_list', serializer.data, timeout=timeout)                *)
warm_cache_list(w) ==
    /\ pc[w] = "warm_list"
    /\ AddCall(w, Call("set", WARM_LIST_KEY, up, FALSE))
    /\ cache' = IF up THEN cache_set(cache, WARM_LIST_KEY, ListPayload(db), dbGen, now,
                                     req[w].timeout)
                ELSE cache
    /\ IF Raises
       THEN Finish(w, req[w], Ret("raised", 0, {})) /\ UNCHANGED loc
       ELSE /\ loc' = [loc EXCEPT ![w].users = db, ![w].born = dbGen,
                                  ![w].todo = {i \in Ids : db[i] # 0}]
            /\ Goto(w, "warm_users")
    /\ UNCHANGED <<db, prevDb, dbGen, nextId, now, up, ignoreExc, tagged, req, log, nreq>>

(* lines 59-63: one iteration of the loop over the rows read, in the order *)
(* the queryset yields them: cache.set(f'user_{user.id}', user_data,       *)
(* timeout=timeout); cached_count += 1                                     *)
warm_cache_user(w) ==
    /\ pc[w] = "warm_users"
    /\ \E id \in loc[w].todo :
          LET cache_key == warm_cache_key(id) IN
          /\ AddCall(w, Call("set", cache_key, up, FALSE))
          /\ cache' = IF up THEN cache_set(cache, cache_key, DetailPayload(loc[w].users, id),
                                           loc[w].born, now, req[w].timeout)
                      ELSE cache
          /\ IF Raises
             THEN Finish(w, req[w], Ret("raised", 0, {})) /\ UNCHANGED loc
             ELSE /\ loc' = [loc EXCEPT ![w].todo = @ \ {id}, ![w].cached_count = @ + 1]
                  /\ Goto(w, "warm_users")
    /\ UNCHANGED <<db, prevDb, dbGen, nextId, now, up, ignoreExc, tagged, req, log, nreq>>

(* lines 69-76: after the loop, the report of cached_count + 1 entries *)
warm_cache_report(w) ==
    /\ pc[w] = "warm_users"
    /\ loc[w].todo = {}
    /\ Finish(w, req[w], Ret("ok", loc[w].cached_count + 1, {}))
    /\ UNCHANGED <<db, prevDb, dbGen, nextId, cache, now, up, ignoreExc, tagged, req, loc,
                   calls, log, nreq>>

(* --------------------------- specifications --------------------------- *)
Step(w, pks) ==
    \/ list_get(w)
    \/ list_super(w)
    \/ list_set(w)
    \/ \E pk \in pks : retrieve_get(w, pk)
    \/ retrieve_super(w)
    \/ retrieve_set(w)
    \/ \E data \in Data : create(w, data)
    \/ perform_create(w)
    \/ \E pk \in pks, data \in Data : update(w, pk, data)
    \/ perform_update(w)
    \/ \E pk \in pks : destroy(w, pk)
    \/ perform_destroy(w)
    \/ perform_destroy_super(w)
    \/ \E id \in Ids \cup {0}, data \in Data : model_save(w, id, data)
    \/ \E id \in Ids : model_delete(w, id)
    \/ invalidate_user_cache_on_save(w)
    \/ invalidate_user_cache_on_delete(w)

(* requests of concurrent workers, interleaved at every call; the detail   *)
(* route gets the decimal of an id and no entry expires meanwhile          *)
Next == \E w \in Workers : Step(w, CanonicalPks)

Spec == Init /\ [][Next]_vars

(* concurrent workers and a clock: entries expire *)
InitTTL == Start(MaxRaceReqs, {FALSE})

NextTTL == (\E w \in Workers : Step(w, CanonicalPks)) \/ Tick

SpecTTL == InitTTL /\ [][NextTTL]_vars

(* one worker: requests that do not overlap, and a clock *)
NextSeq == Step(1, RoutePks) \/ Tick

InitSeq == Start(MaxSeqReqs, {FALSE})

SpecSeq == InitSeq /\ [][NextSeq]_vars

(* one worker and a store that comes and goes; whether the client raises   *)
(* or swallows connection errors is configuration                          *)
InitFail == Start(MaxReqs, BOOLEAN)

NextFail == Step(1, RoutePks) \/ StoreDown \/ StoreUp

SpecFail == InitFail /\ [][NextFail]_vars


(* the tagging index, one call at a time, and a clock *)
TagStep(w) ==
    \/ \E key \in TagKeys, tags \in TagLists, timeout \in Timeouts :
          cache_with_tags(w, key, tags, timeout)
    \/ cache_with_tags_get(w)
    \/ cache_with_tags_set(w)
    \/ \E tag \in Tags : invalidate_by_tag(w, tag)
    \/ invalidate_by_tag_key(w)
    \/ invalidate_by_tag_index(w)

InitTagSeq == Start(MaxTagReqs, {FALSE})

NextTagSeq == TagStep(1) \/ Tick

SpecTagSeq == InitTagSeq /\ [][NextTagSeq]_vars

(* concurrent cache_with_tags calls, interleaved at every cache call; no   *)
(* entry expires and no tag is invalidated meanwhile                       *)
InitTags == Start(MaxRaceReqs, {FALSE})

NextTags ==
    \E w \in Workers :
        \/ \E key \in TagKeys, tags \in TagLists, timeout \in Timeouts :
              cache_with_tags(w, key, tags, timeout)
        \/ cache_with_tags_get(w)
        \/ cache_with_tags_set(w)

SpecTags == InitTags /\ [][NextTags]_vars


(* the admin surface over a store filled by reads and tagged entries, one  *)
(* request at a time; the store comes and goes                             *)
InitAdmin == Start(MaxAdminReqs, {FALSE})

NextAdmin ==
    \/ list_get(1)
    \/ list_super(1)
    \/ list_set(1)
    \/ \E pk \in CanonicalPks : retrieve_get(1, pk)
    \/ retrieve_super(1)
    \/ retrieve_set(1)
    \/ \E key \in TagKeys, tags \in TagLists, timeout \in Timeouts :
          cache_with_tags(1, key, tags, timeout)
    \/ cache_with_tags_get(1)
    \/ cache_with_tags_set(1)
    \/ clear_cache_view(1)
    \/ clear_all_cache(1)
    \/ clear_all_cache_delete(1)
    \/ cache_stats_view(1)
    \/ get_cache_stats(1)
    \/ StoreDown
    \/ StoreUp

SpecAdmin == InitAdmin /\ [][NextAdmin]_vars


(* the warm-up command among requests that do not overlap; no entry        *)
(* expires                                                                 *)
InitWarm == Start(MaxWarmReqs, {FALSE})

NextWarm ==
    \/ Step(1, RoutePks)
    \/ \E clear \in BOOLEAN, timeout \in Timeouts : warm_cache(1, clear, timeout)
    \/ warm_cache_clear(1)
    \/ warm_cache_clear_delete(1)
    \/ warm_cache_list(1)
    \/ warm_cache_user(1)
    \/ warm_cache_report(1)

SpecWarm == InitWarm /\ [][NextWarm]_vars


(* ------------------------------- claims ------------------------------- *)
ReadOps == {"list", "retrieve"}
WriteOps == {"create", "update", "destroy", "save", "delete"}

Returned(w) == pc[w] = "idle" /\ req[w].op # "none"

(* the keys as the specification writes them: user_list and user_{id} *)
ListKey == <<"u", "s", "e", "r", "_", "l", "i", "s", "t">>
UserKey(i) == <<"u", "s", "e", "r", "_">> \o IntStr(i)

(* the key a read request looks up: user_list, or user_ and the pk as sent *)
ReadKey(q) == IF q.op = "list" THEN ListKey ELSE <<"u", "s", "e", "r", "_">> \o q.pk

HasCall(w, op, key) ==
    \E i \in DOMAIN calls[w] : calls[w][i].op = op /\ calls[w][i].key = key

(* C1: when requests do not overlap, a list read that returns after any    *)
(* number of completed creates, updates and deletes (through the API or    *)
(* through a direct save()/delete()) returns a payload computed after all  *)
(* of them: the payload of the current rows, whether it was a miss or a    *)
(* hit.                                                                    *)
ListReadIsFresh ==
    \A w \in Workers :
        (Returned(w) /\ req[w].op = "list" /\ res[w].status = "2xx")
            => (res[w].born = dbGen /\ res[w].val = ListPayload(db))

(* a list read hits an entry that was set after a write *)
ListHitAfterWrite ==
    \E w \in Workers :
        /\ Returned(w) /\ req[w].op = "list" /\ res[w].hit
        /\ dbGen > 0 /\ res[w].born = dbGen

(* C2: retrieve(id), retrieve(id), update(id), retrieve(id) from the empty *)
(* cache: a miss that reads the system of record and stores P under        *)
(* user_{id}; a hit that returns P without reading the system of record;   *)
(* both user_{id} and user_list absent after the update; a miss that       *)
(* returns the payload of the updated row.                                 *)
RetrieveUpdateScenario ==
    LET key == UserKey(scen.id) IN
    pc[1] = "idle" =>
        /\ scen.step = 1 =>
              /\ ~res[1].hit /\ res[1].dbread /\ res[1].val = scen.P
              /\ Has(cache, key) /\ cache[key].val = scen.P
        /\ scen.step = 2 => (res[1].hit /\ ~res[1].dbread /\ res[1].val = scen.P)
        /\ scen.step = 3 => (~Has(cache, key) /\ ~Has(cache, ListKey))
        /\ scen.step = 4 =>
              /\ ~res[1].hit /\ res[1].dbread
              /\ res[1].val = DetailPayload(db, scen.id) /\ res[1].born = dbGen

(* the four requests have run and the update changed the payload *)
ScenarioCompleted == pc[1] = "idle" /\ scen.step = 4 /\ res[1].val # scen.P


(* the hook of w returns in this step *)
HookReturns(w) == pc[w] \in HookPcs /\ pc'[w] \notin HookPcs /\ res'[w].status # "500"

(* the request of w issued, after its write, a delete of key that the      *)
(* store carried out                                                       *)
DeletedAfterWrite(cs, key) ==
    \E i \in DOMAIN cs : cs[i] = Call("delete", key, TRUE, TRUE)

DeletesFollowWrite ==
    \A w \in Workers : \A i \in DOMAIN calls[w] :
        (req[w].op \in WriteOps /\ calls[w][i].op = "delete") => calls[w][i].wrote

(* a read request of w begins in this step *)
StartsRead(w) == CanStart(w) /\ nreq' = nreq - 1 /\ req'[w].op \in ReadOps

(* C5: a read whose set lands after one write and its invalidation have    *)
(* completed leaves in the cache the payload of the rows as they were      *)
(* before that write; and a read that finds an entry under its key returns *)
(* that entry's payload, stale or not, and leaves the store as it is.      *)
RaceLeavesStaleEntry ==
    [][\A w \in Workers :
          /\ (/\ pc[w] \in {"list_set", "retrieve_set"} /\ res'[w].status = "2xx"
              /\ loc[w].born = dbGen - 1
              /\ \A v \in Workers \ {w} : pc[v] = "idle") =>
                /\ Has(cache', ReadKey(req[w]))
                /\ cache'[ReadKey(req[w])].born = dbGen - 1
                /\ cache'[ReadKey(req[w])].val =
                      IF req[w].op = "list" THEN ListPayload(prevDb)
                      ELSE DetailPayload(prevDb, loc[w].id)
          /\ (StartsRead(w) /\ Has(cache, ReadKey(req'[w]))) =>
                /\ res'[w] = Res("2xx", TRUE, cache[ReadKey(req'[w])].val,
                                 cache[ReadKey(req'[w])].born, FALSE)
                /\ cache' = cache]_vars

(* every request has returned, the write and its invalidation included,    *)
(* and a later list read was a hit on the list as it was before the write  *)
StaleHitServed ==
    \E w \in Workers :
        /\ \A v \in Workers : pc[v] = "idle"
        /\ req[w].op = "list" /\ res[w].hit
        /\ res[w].born = dbGen - 1
        /\ res[w].val = ListPayload(prevDb) /\ res[w].val # ListPayload(db)
        /\ Has(cache, ListKey) /\ cache[ListKey].val = res[w].val


(* C6: no entry stays in the store for CACHE_TTL or more after the set     *)
(* that wrote it, a stale one included: nothing but a set gives an entry   *)
(* its expiry.                                                             *)
EntryGoneWithinTTL ==
    \A k \in DOMAIN cache : now < cache[k].setAt + CACHE_TTL

(* a stale list, left by the race of a read with a write, in the last tick *)
(* of its TTL                                                              *)
StaleListAboutToExpire ==
    /\ \A w \in Workers : pc[w] = "idle"
    /\ Has(cache, ListKey)
    /\ cache[ListKey].val # ListPayload(db)
    /\ now = cache[ListKey].setAt + CACHE_TTL - 1

(* the (prefix, identifier) pairs the read handlers hand to get_cache_key: *)
(* ('user_list', None) and ('user', pk) for the pk of every detail read    *)
KeyPairs ==
    {<<USER_LIST, None>>} \cup
    {<<USER, StrId(req[w].pk)>> : w \in {v \in Workers : req[v].op = "retrieve"}}

(* C7 as claimed: distinct (prefix, identifier) pairs never yield the same *)
(* key; no ('user', identifier) key equals the collection key.             *)
KeysInjective ==
    \A a \in KeyPairs : \A b \in KeyPairs :
        a # b => get_cache_key(a[1], a[2]) # get_cache_key(b[1], b[2])

(* C8 as claimed: the payload of a record is cached under user_{id} only,  *)
(* the key the hook and the handlers delete; so once a write to a record   *)
(* has returned, no entry holds a payload of that record.                  *)
SingletonKeyPerRecord ==
    /\ \A k \in DOMAIN cache :
          cache[k].val.kind = "user" => \A r \in cache[k].val.rows : k = UserKey(r.id)
    /\ \A w \in Workers :
          (Returned(w) /\ req[w].op \in WriteOps /\ res[w].status = "2xx") =>
              \A k \in DOMAIN cache :
                  cache[k].val.kind = "user" => \A r \in cache[k].val.rows : r.id # loc[w].id

FailedCall(w) == \E i \in DOMAIN calls[w] : ~calls[w][i].ok

(* C9 as claimed: a list or detail read whose cache get or set found the   *)
(* store unreachable does not fail: it is a miss, answered from the system *)
(* of record.                                                              *)
ReadSurvivesOutage ==
    \A w \in Workers :
        (Returned(w) /\ req[w].op \in ReadOps /\ FailedCall(w)) =>
            (res[w].status # "500" /\ ~res[w].hit /\ res[w].dbread)

(* the code has no logging call for a failed delete *)
FailureLogged(w) == \E i \in DOMAIN log[w] : log[w][i].msg = "Cache delete failed"

(* C10 as claimed: when a delete of the invalidation fails after the       *)
(* write, the write request still succeeds, the failure is logged or the   *)
(* delete is retried, and the other keys are still attempted.              *)
InvalidationFailureHandled ==
    \A w \in Workers : \A i \in DOMAIN calls[w] :
        (/\ Returned(w) /\ req[w].op \in WriteOps
         /\ calls[w][i].op = "delete" /\ ~calls[w][i].ok /\ calls[w][i].wrote) =>
            /\ res[w].status = "2xx"
            /\ \/ FailureLogged(w)
               \/ \E j \in DOMAIN calls[w] :
                     j > i /\ calls[w][j].op = "delete" /\ calls[w][j].key = calls[w][i].key
            /\ HasCall(w, "delete", ListKey) /\ HasCall(w, "delete", UserKey(loc[w].id))

(* ----------------------- claims: the tagging index -------------------- *)
(* the call of w to invalidate_by_tag returns in this step *)
InvalidateReturns(w) ==
    /\ pc[w] = "tag_delete" /\ pc'[w] = "idle"
    /\ req[w].op = "invalidate_by_tag" /\ res'[w].status = "ok"

(* the call of w to invalidate_by_tag begins in this step *)
InvalidateBegins(w) == CanStart(w) /\ nreq' = nreq - 1 /\ req'[w].op = "invalidate_by_tag"

(* C11: with one call at a time, when invalidate_by_tag(t) returns, tag_t  *)
(* is absent and so is every key added under t by cache_with_tags whose    *)
(* index has not expired since; an invalidate_by_tag(t) that finds no      *)
(* index entry (a second one, or a tag never used) returns 0 and leaves    *)
(* the store as it is.                                                     *)
TagInvalidationComplete ==
    [][\A w \in Workers :
          /\ InvalidateReturns(w) =>
                LET tag == req[w].tags[1] IN
                /\ ~Has(cache', tag_key(tag))
                /\ \A k \in tagged[tag].keys \ tagged[tag].orphans : ~Has(cache', k)
                /\ loc[w].tagged_keys = {} => (res'[w].count = 0 /\ cache' = cache)
          /\ (InvalidateBegins(w) /\ ~Has(cache, tag_key(req'[w].tags[1]))) =>
                loc'[w].tagged_keys = {}]_vars

(* invalidate_by_tag has returned 2: two keys had been added under the tag *)
(* and they are gone, with the index                                       *)
TwoKeysInvalidated ==
    \E w \in Workers :
        /\ Returned(w) /\ req[w].op = "invalidate_by_tag" /\ res[w].count = 2
        /\ \A k \in TagKeys : ~Has(cache, k)
        /\ ~Has(cache, tag_key(req[w].tags[1]))

(* the call of w goes on in this step: it issues its next cache call *)
Continues(w) == pc[w] # "idle" /\ calls'[w] # calls[w]

(* C12: every cache_with_tags call writes, for each of its tags, the whole *)
(* member set (what it read plus its key) with its own timeout, so the     *)
(* index expires with the latest write; once the index of t has expired    *)
(* before a key added under t, an invalidate_by_tag(t) that finds no index *)
(* returns 0 and never touches that key.                                   *)
TagIndexExpiresWithLastWrite ==
    [][\A w \in Workers :
          /\ (pc[w] = "tag_set" /\ Continues(w) /\ res'[w].status # "raised") =>
                LET tk == tag_key(req[w].tags[loc[w].i]) IN
                /\ Has(cache', tk)
                /\ cache'[tk].val = TagSet(loc[w].tagged_keys \cup {req[w].key})
                /\ cache'[tk].setAt = now
                /\ cache'[tk].exp = now + req[w].timeout
          /\ (pc[w] = "tag_delete" /\ Continues(w)) =>
                LET tag == req[w].tags[1] IN
                /\ \A k \in tagged[tag].orphans \ loc[w].tagged_keys :
                      Has(cache, k) => (Has(cache', k) /\ cache'[k] = cache[k])
                /\ (InvalidateReturns(w) /\ tagged[tag].orphans # {}
                       /\ loc[w].tagged_keys = {}) => res'[w].count = 0]_vars

(* the index of a tag has expired (no index is left: a later call under    *)
(* the tag rewrote it with a shorter timeout), a key added under it is     *)
(* still live, and invalidate_by_tag of that tag has returned 0            *)
OrphanSurvivesInvalidation ==
    \E w \in Workers :
        /\ Returned(w) /\ req[w].op = "invalidate_by_tag" /\ res[w].count = 0
        /\ \A u \in Tags : ~Has(cache, tag_key(u))
        /\ \E k \in tagged[req[w].tags[1]].orphans : Has(cache, k) /\ cache[k].exp > now

(* --------------------- claims: the admin surface ---------------------- *)
(* C13: on a reachable store clear_all_cache counts every key the store    *)
(* holds, whatever wrote it (a read, a tagged entry, a tag index), returns *)
(* that count and leaves the store empty; called on the empty store, as    *)
(* right after a clear, it returns 0 and the store stays empty.            *)
ClearAllEmptiesStore ==
    [][\A w \in Workers :
          /\ (pc[w] = "clear_keys" /\ pc'[w] # "clear_keys" /\ up) =>
                /\ cache' = cache
                /\ IF cache = EmptyCache
                   THEN pc'[w] = "idle" /\ res'[w] = Ret("success", 0, {})
                   ELSE pc'[w] = "clear_delete"
                           /\ loc'[w].count = Cardinality(DOMAIN cache)
          /\ (pc[w] = "clear_delete" /\ pc'[w] = "idle" /\ up) =>
                /\ res'[w] = Ret("success", Cardinality(DOMAIN cache), {})
                /\ cache' = EmptyCache
          /\ (Returned(w) /\ req[w].op = "clear_all_cache" /\ ~FailedCall(w)) =>
                cache = EmptyCache]_vars

(* clear_all_cache has returned 4 and the store is empty: it held the list *)
(* of a read, a tagged entry and the indexes of its two tags               *)
ClearedFourKeys ==
    \E w \in Workers :
        /\ Returned(w) /\ req[w].op = "clear_all_cache" /\ ~FailedCall(w)
        /\ res[w].count = 4
        /\ cache = EmptyCache

(* C14: get_cache_stats never raises. When the store does not answer it    *)
(* returns the payload {error, total_keys: 0, keys: []}; when it answers,  *)
(* the call leaves the store as it is, total_keys is the number of keys in *)
(* the store and the key list holds min(total_keys, limit) of them.        *)
StatsNeverRaises ==
    [][\A w \in Workers :
          (pc[w] = "stats" /\ pc'[w] = "idle") =>
              /\ cache' = cache
              /\ res'[w].status = "ok"
              /\ IF up
                 THEN /\ ~res'[w].val.error
                      /\ res'[w].val.total_keys = Cardinality(DOMAIN cache)
                      /\ res'[w].val.keys \subseteq DOMAIN cache
                      /\ Cardinality(res'[w].val.keys) =
                            Min(res'[w].val.total_keys, KEYS_SAMPLE)
                 ELSE res'[w].val = Stats(TRUE, 0, {})]_vars

(* get_cache_stats has returned the error payload: the store holds more    *)
(* keys than the list would show, and does not answer                      *)
StatsErrorPayload ==
    \E w \in Workers :
        /\ Returned(w) /\ req[w].op = "get_cache_stats" /\ FailedCall(w)
        /\ res[w].val = Stats(TRUE, 0, {})
        /\ Cardinality(DOMAIN cache) > KEYS_SAMPLE

(* ------------------------ claims: the handlers ------------------------ *)
(* the pk of the request of w, which has returned, matched no record when  *)
(* the request was made (requests do not overlap: the only write since is  *)
(* the request's own)                                                      *)
NoSuchRecord(w) == get_object(IF loc[w].wrote THEN prevDb ELSE db, req[w].pk) = 0

(* C15 as claimed: a detail read, an update or a delete whose identifier   *)
(* matches no record returns not-found and issues no set and no delete on  *)
(* the store.                                                              *)
NotFoundLeavesCacheUntouched ==
    \A w \in Workers :
        (Returned(w) /\ req[w].op \in {"retrieve", "update", "destroy"} /\ NoSuchRecord(w)) =>
            /\ res[w].status = "404"
            /\ \A i \in DOMAIN calls[w] : calls[w][i].op \notin {"set", "delete"}

(* the store after the deletes of keys, in their order *)
RECURSIVE DeleteAll(_, _)
DeleteAll(c, keys) ==
    IF keys = <<>> THEN c ELSE DeleteAll(cache_delete(c, Head(keys)), Tail(keys))

(* the store after one more run of the hook for the record of id *)
HookEffect(c, id) == DeleteAll(c, cache_keys_to_delete(id))

(* C16: when requests do not overlap, every step of the hook leaves the    *)
(* keys other than user_list and user_{id} as they are and raises nothing; *)
(* when the hook returns both keys are absent and one more run of it would *)
(* leave the store as it is; a run that finds both keys absent changes     *)
(* nothing, and so do the deletes a handler repeats after the hook         *)
(* (perform_create, perform_update) and the hook that follows the deletes  *)
(* of perform_destroy.                                                     *)
HookIsIdempotent ==
    [][\A w \in Workers :
          /\ (pc[w] \in HookPcs /\ Continues(w)) =>
                /\ res'[w].status # "500"
                /\ \A k \in (DOMAIN cache \cup DOMAIN cache') \ {ListKey, UserKey(loc[w].id)} :
                      Has(cache, k) /\ Has(cache', k) /\ cache'[k] = cache[k]
                /\ (~Has(cache, ListKey) /\ ~Has(cache, UserKey(loc[w].id))) => cache' = cache
                /\ HookReturns(w) =>
                      /\ ~Has(cache', ListKey) /\ ~Has(cache', UserKey(loc[w].id))
                      /\ HookEffect(cache', loc[w].id) = cache'
                /\ req[w].op = "destroy" => cache' = cache
          /\ (pc[w] \in {"perform_create", "perform_update"} /\ Continues(w)) =>
                cache' = cache]_vars

(* an update has returned: the hook and then the handler have each deleted *)
(* user_list and user_{id}, and the entry of another key is still there    *)
HookRanTwice ==
    \E w \in Workers :
        /\ Returned(w) /\ req[w].op = "update" /\ res[w].status = "2xx"
        /\ Len(calls[w]) = 4
        /\ \A i \in DOMAIN calls[w] :
              calls[w][i].op = "delete" /\ calls[w][i].key \in {ListKey, UserKey(loc[w].id)}
        /\ cache # EmptyCache

(* C17 as claimed: a detail read that returns successfully returns a       *)
(* single-record payload, and the record is the one its pk identifies: on  *)
(* a hit as on a miss, never the collection payload or another record.     *)
DetailReadReturnsRequestedRecord ==
    \A w \in Workers :
        (Returned(w) /\ req[w].op = "retrieve" /\ res[w].status = "2xx") =>
            /\ res[w].val.kind = "user"
            /\ {r.id : r \in res[w].val.rows} = {ParseInt(req[w].pk)}

(* C18: a list or detail read that finds an entry under its key returns    *)
(* the entry's value and changes nothing: its only cache call is the get,  *)
(* it does not read the system of record and every entry keeps its expiry. *)
(* A read that misses and finds the record stores the payload it returns   *)
(* under its key with timeout CACHE_TTL, by one set, and leaves every      *)
(* other key as it is; a miss that ends in not-found stores nothing.       *)
ReadFrame ==
    [][\A w \in Workers :
          /\ (StartsRead(w) /\ Has(cache, ReadKey(req'[w]))) =>
                /\ res'[w] = Res("2xx", TRUE, cache[ReadKey(req'[w])].val,
                                 cache[ReadKey(req'[w])].born, FALSE)
                /\ pc'[w] = "idle"
                /\ calls'[w] = <<Call("get", ReadKey(req'[w]), TRUE, FALSE)>>
                /\ cache' = cache /\ db' = db
          /\ (pc[w] \in {"list_set", "retrieve_set"} /\ Continues(w)) =>
                LET key == ReadKey(req[w]) IN
                /\ res'[w].status = "2xx" /\ ~res'[w].hit /\ res'[w].dbread
                /\ Has(cache', key)
                /\ cache'[key].val = res'[w].val
                /\ cache'[key].setAt = now /\ cache'[key].exp = now + CACHE_TTL
                /\ \A k \in (DOMAIN cache \cup DOMAIN cache') \ {key} :
                      Has(cache, k) /\ Has(cache', k) /\ cache'[k] = cache[k]
                /\ calls'[w] = <<Call("get", key, TRUE, FALSE), Call("set", key, TRUE, FALSE)>>
          /\ (pc[w] = "retrieve_super" /\ pc'[w] = "idle") =>
                (res'[w].status = "404" /\ cache' = cache)]_vars

(* a detail read has missed and stored what it returned, beside the entry  *)
(* of another key, which is older                                          *)
MissStoredBesideOtherEntry ==
    \E w \in Workers :
        /\ Returned(w) /\ req[w].op = "retrieve" /\ res[w].status = "2xx" /\ ~res[w].hit
        /\ Has(cache, ReadKey(req[w]))
        /\ cache[ReadKey(req[w])].val = res[w].val
        /\ cache[ReadKey(req[w])].setAt = now
        /\ \E k \in DOMAIN cache : k # ReadKey(req[w]) /\ cache[k].setAt < now

(* C19 as claimed: with one call at a time, invalidate_by_tag(t) returns   *)
(* the number of members of t that the store held when it was called:      *)
(* members that had expired or been deleted are not counted.               *)
InvalidateCountsRemoved ==
    [][\A w \in Workers : InvalidateReturns(w) => res'[w].count = loc[w].present]_vars

(* the members of tag, as the index in the store c lists them *)
Members(c, tag) == IF Has(c, tag_key(tag)) THEN c[tag_key(tag)].val.rows ELSE {}

(* C20 as claimed: once concurrent cache_with_tags calls have all          *)
(* returned, with no expiry and no invalidation meanwhile, the member set  *)
(* stored under tag_t holds every key that any of the calls added under t. *)
NoTaggedKeyLost ==
    (\A w \in Workers : pc[w] = "idle") =>
        \A t \in Tags : tagged[t].keys \subseteq Members(cache, t)

(* the records that exist, and the entries the warm-up command is to leave *)
Existing == {i \in Ids : db[i] # 0}
WarmKeys == {ListKey} \cup {UserKey(i) : i \in Existing}

WarmCompleted(w) == Returned(w) /\ req[w].op = "warm_cache" /\ res[w].status = "ok"

(* the payload the read-through handler computes on a miss for the read q *)
MissPayload(q) == IF q.op = "list" THEN ListPayload(db) ELSE DetailPayload(db, get_object(db, q.pk))

(* the read q is a list read or a detail read of a record that exists *)
ReadsExisting(q) == q.op = "list" \/ (q.op = "retrieve" /\ get_object(db, q.pk) # 0)

(* C21: when warm_cache has completed, with no write beside it and no      *)
(* expiry, the store holds user_list and one user_{id} entry for every     *)
(* existing record, each with the payload the read-through handler         *)
(* computes on a miss; with --clear the store holds no other entry; the    *)
(* reported count is the number of records plus one; and the list read or  *)
(* detail read of an existing record that follows is a hit.                *)
WarmCacheMatchesReadThrough ==
    [][\A w \in Workers :
          WarmCompleted(w) =>
             /\ Has(cache, ListKey) /\ cache[ListKey].val = ListPayload(db)
             /\ \A i \in Existing :
                   Has(cache, UserKey(i)) /\ cache[UserKey(i)].val = DetailPayload(db, i)
             /\ req[w].clear => DOMAIN cache = WarmKeys
             /\ res[w].count = Cardinality(Existing) + 1
             /\ (StartsRead(w) /\ ReadsExisting(req'[w])) =>
                   /\ pc'[w] = "idle"
                   /\ res'[w].hit
                   /\ res'[w].val = MissPayload(req'[w])]_vars

====
